---- MODULE Spec2Model ----
(***************************************************************************)
(* Rock-Paper-Scissors gesture game, web front end.                        *)
(*                                                                         *)
(* Polling variant: the Home component (React).  Its state is the four     *)
(* useState cells, the interval timer of the polling effect, the timeout   *)
(* of the Play Again button and the HTTP requests that are in flight.      *)
(* The backend process is the environment: it answers a request when it    *)
(* receives it, and the answer then travels for an arbitrary time.  A POST *)
(* that does not reach the backend is rejected (fetch throws), which its   *)
(* handler ignores: it is not kept in flight.                              *)
(*                                                                         *)
(* Client-only variant: the round state machine (countdown, lock,          *)
(* resolve, reset) and the gesture classifier.                             *)
(***************************************************************************)
EXTENDS Naturals, Integers, Sequences, FiniteSets

VARIABLES
    mounted,            \* the Home component is mounted
    currentPage,        \* useState('welcome')
    gameState,          \* useState(null): last snapshot stored by a poll
    selectedDifficulty, \* useState('Easy')
    error,              \* useState('')
    intervals,          \* active setInterval timers, each named by the currentPage its callback closed over
    polls,              \* GET /state responses in flight, in the order the requests were issued
    pollLimit,          \* environment: how many GET /state the network carries at once
    resets,             \* POST /reset responses in flight
    timeouts,           \* pending setTimeout callbacks of Play Again
    diffs,              \* POST /difficulty/<level> responses in flight
    bStatus,            \* backend: state of the current round/game
    bDifficulty,        \* backend: level of the last /difficulty request received
    latestOk,           \* history: body of the most recently issued poll among those that succeeded
    viewOld,            \* history: the stored snapshot was taken of a game that was reset since
    playAgain,          \* history: what is still pending of the last Play Again click, while no other click followed
    diffCompleted,      \* history: some /difficulty request has completed
    settled,            \* environment: the user has stopped clicking, the backend stays completed, polls succeed
    cameraOn,           \* client-only: the camera and the game-loop timer are running
    roundState,         \* client-only: idle, counting-down, locked, resolved
    countdown,          \* client-only: countdown remaining
    lastGesture,        \* client-only: last classified gesture that was not Unknown
    playerChoice,       \* client-only: the player's frozen choice
    computerChoice,     \* client-only: the computer's drawn choice
    winner              \* client-only: outcome of the round

viewVars == <<mounted, currentPage, gameState, selectedDifficulty, error, intervals>>
netVars == <<polls, pollLimit, resets, timeouts, diffs>>
backendVars == <<bStatus, bDifficulty>>
historyVars == <<latestOk, viewOld, playAgain, diffCompleted, settled>>
roundVars == <<cameraOn, roundState, countdown, lastGesture, playerChoice, computerChoice, winner>>
vars == <<viewVars, netVars, backendVars, historyVars, roundVars>>

----------------------------------------------------------------------------
(* Bounds *)

MaxPolls == 1

RacePolls == 2

MaxResets == 1

MaxDiffs == 2

----------------------------------------------------------------------------
(* Values *)

Pages == {"welcome", "difficulty", "gameplay", "results"}

Levels == {"Easy", "Medium", "Hard"}

\* level.toLowerCase() of the three level names
ToLowerCase(level) ==
    CASE level = "Easy" -> "easy"
      [] level = "Medium" -> "medium"
      [] level = "Hard" -> "hard"

\* gameState === null
NullState == [status |-> "null"]

\* What GET /state answers: the backend's JSON snapshot.
\*   idle      : no round armed or started, no round result
\*   played    : game_started, with user_choice, computer_choice and winner
\*   completed : game_status.game_completed, with game_winner and the scores
Snapshot == [status |-> bStatus]

\* data.game_status?.game_completed
GameCompleted(data) == data.status = "completed"

\* the snapshot carries a choice or a winner (user_choice, winner, game_winner)
HasResult(data) == data.status \in {"played", "completed"}

\* !gameState?.armed && !gameState?.game_started
StartRoundVisible == gameState.status \in {"null", "idle"}

\* Outcomes of one GET /state
PollOutcomes == {"ok", "network", "status", "parse"}

\* fetch() rejects
FetchThrows(o) == o = "network"

\* response.ok
ResponseOk(o) == o \in {"ok", "parse"}

\* response.json() rejects
JsonThrows(o) == o = "parse"

RemoveAt(s, i) == SubSeq(s, 1, i - 1) \o SubSeq(s, i + 1, Len(s))

\* A later click ends the observation of the last Play Again click.
Untrack(s) == [i \in 1..Len(s) |-> [s[i] EXCEPT !.tracked = FALSE]]

\* The answers in flight were given for a game that is reset now.
MarkOld(s) == [i \in 1..Len(s) |-> [s[i] EXCEPT !.old = TRUE]]

----------------------------------------------------------------------------
(* Navigation targets of the buttons *)

StartChallengeTarget == "difficulty"

BackTarget == "welcome"

StartGameTarget == "gameplay"

SettingsTarget == "difficulty"

ResetTarget == "welcome"

\* A Play Again timer that sets the page it is already on
PlayAgainStays == "results"

PlayAgainTarget == "difficulty"

AutoTarget == "results"

\* Pages a click on page p leads to without any answer of the backend:
\* the buttons rendered on p whose handler (or the timeout it starts) calls
\* setCurrentPage directly.
ClickTargets(p) ==
    CASE p = "welcome" -> {StartChallengeTarget}
      [] p = "difficulty" -> {BackTarget, StartGameTarget}
      [] p = "gameplay" -> {SettingsTarget}
      [] p = "results" -> {PlayAgainTarget}
      [] OTHER -> {StartChallengeTarget}

RECURSIVE ClickReach(_, _)
ClickReach(S, n) ==
    IF n = 0 THEN S
    ELSE ClickReach(S \cup UNION {ClickTargets(p) : p \in S}, n - 1)

----------------------------------------------------------------------------
(* The polling effect *)

\* A cleanup that leaves the interval running
KeepInterval(timers, page) == timers

\* return () => clearInterval(interval): the cleanup of the effect that ran
\* when the page was `page` clears the interval that effect created.
ClearInterval(timers, page) == timers \ {page}

\* useEffect(..., [currentPage]): when currentPage changes, the cleanup of
\* the previous effect runs and the effect starts a new interval whose
\* callback closes over the new page.
RunEffect(old, new, timers) ==
    IF new = old THEN timers ELSE ClearInterval(timers, old) \cup {new}

\* setCurrentPage(p) and the render it causes
SetCurrentPage(p) ==
    /\ currentPage' = p
    /\ intervals' = RunEffect(currentPage, p, intervals)

Start ==
    /\ mounted = TRUE
    /\ currentPage = "welcome"
    /\ gameState = NullState
    /\ selectedDifficulty = "Easy"
    /\ error = ""
    /\ intervals = {"welcome"}
    /\ polls = <<>>
    /\ resets = <<>>
    /\ timeouts = <<>>
    /\ diffs = <<>>
    /\ bStatus = "idle"
    /\ bDifficulty = "easy"
    /\ latestOk = NullState
    /\ viewOld = FALSE
    /\ playAgain = "none"
    /\ diffCompleted = FALSE
    /\ settled = FALSE
    /\ cameraOn = TRUE
    /\ roundState = "idle"
    /\ countdown = 0
    /\ lastGesture = "Unknown"
    /\ playerChoice = "None"
    /\ computerChoice = "None"
    /\ winner = "None"

\* A network that carries one poll at a time
Init == Start /\ pollLimit = MaxPolls

\* A network on which polls overtake each other
RaceInit == Start /\ pollLimit = RacePolls

----------------------------------------------------------------------------
(* User clicks of the polling variant *)

\* A click on any button other than Play Again: the last Play Again click
\* is no longer the last click.
LaterClick ==
    /\ playAgain' = "none"
    /\ resets' = Untrack(resets)
    /\ timeouts' = Untrack(timeouts)

CanClick == mounted /\ ~settled

\* WelcomePage: Start Your Challenge
StartChallengeClick ==
    /\ CanClick
    /\ currentPage = "welcome"
    /\ SetCurrentPage(StartChallengeTarget)
    /\ LaterClick
    /\ UNCHANGED <<mounted, gameState, selectedDifficulty, error, polls, pollLimit, diffs>>
    /\ UNCHANGED <<backendVars, latestOk, viewOld, diffCompleted, settled, roundVars>>

\* DifficultyPage: Back
BackClick ==
    /\ CanClick
    /\ currentPage = "difficulty"
    /\ SetCurrentPage(BackTarget)
    /\ LaterClick
    /\ UNCHANGED <<mounted, gameState, selectedDifficulty, error, polls, pollLimit, diffs>>
    /\ UNCHANGED <<backendVars, latestOk, viewOld, diffCompleted, settled, roundVars>>

\* DifficultyPage: Start Game
StartGameClick ==
    /\ CanClick
    /\ currentPage = "difficulty"
    /\ SetCurrentPage(StartGameTarget)
    /\ LaterClick
    /\ UNCHANGED <<mounted, gameState, selectedDifficulty, error, polls, pollLimit, diffs>>
    /\ UNCHANGED <<backendVars, latestOk, viewOld, diffCompleted, settled, roundVars>>

\* GameplayPage: Settings
SettingsClick ==
    /\ CanClick
    /\ currentPage = "gameplay"
    /\ SetCurrentPage(SettingsTarget)
    /\ LaterClick
    /\ UNCHANGED <<mounted, gameState, selectedDifficulty, error, polls, pollLimit, diffs>>
    /\ UNCHANGED <<backendVars, latestOk, viewOld, diffCompleted, settled, roundVars>>

\* GameplayPage: Start Round, startGame(): POST /start; nothing is done with
\* the answer.  A request that reaches an idle backend has a round played,
\* which may end the game.
StartRoundClick ==
    /\ CanClick
    /\ currentPage = "gameplay"
    /\ StartRoundVisible
    /\ \E received \in BOOLEAN, s \in {"played", "completed"} :
          bStatus' = IF received /\ bStatus = "idle" THEN s ELSE bStatus
    /\ LaterClick
    /\ UNCHANGED <<viewVars, polls, pollLimit, diffs, bDifficulty>>
    /\ UNCHANGED <<latestOk, viewOld, diffCompleted, settled, roundVars>>

\* resetGame() up to its await: POST /reset is sent.  A request that reaches
\* the backend starts a new game there.  A request that does not is
\* rejected, which the empty catch of resetGame() ignores; beyond the bounds
\* every request is rejected.
SendReset(tracked, received) ==
    IF received /\ Len(resets) < MaxResets
    THEN /\ resets' = Append(Untrack(resets), [tracked |-> tracked])
         /\ bStatus' = "idle"
         /\ polls' = MarkOld(polls)
         /\ viewOld' = TRUE
         /\ playAgain' = IF tracked THEN "both" ELSE "none"
    ELSE /\ resets' = Untrack(resets)
         /\ playAgain' = IF tracked THEN "timer" ELSE "none"
         /\ UNCHANGED <<bStatus, polls, viewOld>>

\* ResultsPage: Main Menu, onClick={resetGame}
MainMenuClick ==
    /\ CanClick
    /\ currentPage = "results"
    /\ \E received \in BOOLEAN : SendReset(FALSE, received)
    /\ timeouts' = Untrack(timeouts)
    /\ UNCHANGED <<viewVars, pollLimit, diffs, bDifficulty>>
    /\ UNCHANGED <<latestOk, diffCompleted, settled, roundVars>>

\* ResultsPage: Play Again, resetGame() and setTimeout(..., 100)
PlayAgainClick ==
    /\ CanClick
    /\ currentPage = "results"
    /\ Len(timeouts) < MaxResets
    /\ \E received \in BOOLEAN : SendReset(TRUE, received)
    /\ timeouts' = Append(Untrack(timeouts), [tracked |-> TRUE])
    /\ UNCHANGED <<viewVars, pollLimit, diffs, bDifficulty>>
    /\ UNCHANGED <<latestOk, diffCompleted, settled, roundVars>>

\* DifficultyPage: a level card, setDifficulty(level) up to its await.  A
\* request that does not reach the backend is rejected, which the empty
\* catch of setDifficulty() ignores.
SetDifficultyClick(level) ==
    /\ CanClick
    /\ currentPage = "difficulty"
    /\ Len(diffs) < MaxDiffs
    /\ \E received \in BOOLEAN :
          IF received
          THEN /\ diffs' = Append(diffs, level)
               /\ bDifficulty' = ToLowerCase(level)
          ELSE UNCHANGED <<diffs, bDifficulty>>
    /\ LaterClick
    /\ UNCHANGED <<viewVars, polls, pollLimit, bStatus>>
    /\ UNCHANGED <<latestOk, viewOld, diffCompleted, settled, roundVars>>

----------------------------------------------------------------------------
(* Timers and responses of the polling variant *)

\* The setInterval callback up to its await: fetch('/state') is sent.  The
\* callback keeps the currentPage of the render that created the interval.
PollTick ==
    /\ Len(polls) < pollLimit
    /\ \E p \in intervals :
          polls' = Append(polls, [page |-> p, body |-> Snapshot,
                                  old |-> FALSE, superseded |-> FALSE])
    /\ UNCHANGED <<viewVars, pollLimit, resets, timeouts, diffs, backendVars, historyVars, roundVars>>

\* The polls still in flight once poll i has succeeded: those issued before
\* it are no longer the most recently issued successful poll.
Supersede(s, i) ==
    LET marked == [k \in 1..Len(s) |->
                     IF k < i THEN [s[k] EXCEPT !.superseded = TRUE] ELSE s[k]]
    IN RemoveAt(marked, i)

\* A failed poll that forgets the stored snapshot
ClearOnFailure(p, o) ==
    /\ gameState' = IF o = "ok" THEN p.body ELSE NullState
    /\ IF o = "ok" /\ GameCompleted(p.body) /\ p.page = "gameplay"
       THEN SetCurrentPage(AutoTarget)
       ELSE UNCHANGED <<currentPage, intervals>>

\* The setInterval callback after its await, for the poll p and the outcome
\* o of its request: the try block from response.ok on, and the empty catch.
PollCallback(p, o) ==
    IF ~FetchThrows(o) /\ ResponseOk(o) /\ ~JsonThrows(o)
    THEN /\ gameState' = p.body
         /\ IF GameCompleted(p.body) /\ p.page = "gameplay"
            THEN SetCurrentPage(AutoTarget)
            ELSE UNCHANGED <<currentPage, intervals>>
    ELSE UNCHANGED <<gameState, currentPage, intervals>>

\* The answer to poll i arrives with outcome o.
PollRespond(i, o) ==
    /\ i \in 1..Len(polls)
    /\ settled => o = "ok"
    /\ IF mounted
       THEN PollCallback(polls[i], o)
       ELSE UNCHANGED <<gameState, currentPage, intervals>>
    /\ polls' = IF o = "ok" THEN Supersede(polls, i) ELSE RemoveAt(polls, i)
    /\ latestOk' = IF o = "ok" /\ ~polls[i].superseded THEN polls[i].body ELSE latestOk
    /\ viewOld' = IF o = "ok" /\ mounted THEN polls[i].old ELSE viewOld
    /\ UNCHANGED <<mounted, selectedDifficulty, error, pollLimit, resets, timeouts, diffs>>
    /\ UNCHANGED <<backendVars, playAgain, diffCompleted, settled, roundVars>>

\* playAgain once the reset or the timer of the observed click is over:
\* "both" are pending, then only the "reset" or only the "timer", then "done".
Completed(pa, what) ==
    CASE pa = "both" /\ what = "reset" -> "timer"
      [] pa = "both" /\ what = "timer" -> "reset"
      [] pa = what -> "done"
      [] OTHER -> pa

\* resetGame() after its await: fetch resolved.
ResetRespond(i) ==
    /\ i \in 1..Len(resets)
    /\ resets' = RemoveAt(resets, i)
    /\ IF mounted
       THEN SetCurrentPage(ResetTarget)
       ELSE UNCHANGED <<currentPage, intervals>>
    /\ playAgain' = IF resets[i].tracked THEN Completed(playAgain, "reset") ELSE playAgain
    /\ UNCHANGED <<mounted, gameState, selectedDifficulty, error, polls, pollLimit, timeouts, diffs>>
    /\ UNCHANGED <<backendVars, latestOk, viewOld, diffCompleted, settled, roundVars>>

\* The callback of setTimeout(() => setCurrentPage('difficulty'), 100)
PlayAgainTimeout ==
    /\ timeouts # <<>>
    /\ timeouts' = Tail(timeouts)
    /\ IF mounted
       THEN SetCurrentPage(PlayAgainTarget)
       ELSE UNCHANGED <<currentPage, intervals>>
    /\ playAgain' = IF Head(timeouts).tracked THEN Completed(playAgain, "timer") ELSE playAgain
    /\ UNCHANGED <<mounted, gameState, selectedDifficulty, error, polls, pollLimit, resets, diffs>>
    /\ UNCHANGED <<backendVars, latestOk, viewOld, diffCompleted, settled, roundVars>>

\* setDifficulty(level) after its await: fetch resolved.
DifficultyRespond(i) ==
    /\ i \in 1..Len(diffs)
    /\ diffs' = RemoveAt(diffs, i)
    /\ selectedDifficulty' = IF mounted THEN diffs[i] ELSE selectedDifficulty
    /\ diffCompleted' = TRUE
    /\ UNCHANGED <<mounted, currentPage, gameState, error, intervals, polls, pollLimit, resets, timeouts>>
    /\ UNCHANGED <<backendVars, latestOk, viewOld, playAgain, settled, roundVars>>

\* GameplayPage: the video <img> fails to load, onError
ImgError ==
    /\ mounted
    /\ currentPage = "gameplay"
    /\ error' = "Cannot connect to camera"
    /\ UNCHANGED <<mounted, currentPage, gameState, selectedDifficulty, intervals>>
    /\ UNCHANGED <<netVars, backendVars, historyVars, roundVars>>

\* The component is torn down: the cleanup of the last effect runs.
Unmount ==
    /\ mounted
    /\ ~settled
    /\ mounted' = FALSE
    /\ intervals' = ClearInterval(intervals, currentPage)
    /\ UNCHANGED <<currentPage, gameState, selectedDifficulty, error>>
    /\ UNCHANGED <<netVars, backendVars, historyVars, roundVars>>

----------------------------------------------------------------------------
(* The backend process *)

\* The backend is ready for the next round.
BackendNextRound ==
    /\ ~settled
    /\ bStatus = "played"
    /\ bStatus' = "idle"
    /\ UNCHANGED <<viewVars, netVars, bDifficulty, historyVars, roundVars>>

\* From here on the user clicks nothing, the backend keeps reporting the
\* game completed and every poll succeeds.  A game lasts for seconds: the
\* 100 ms timer of an earlier Play Again click has fired by then.
Settle ==
    /\ mounted
    /\ ~settled
    /\ bStatus = "completed"
    /\ timeouts = <<>>
    /\ settled' = TRUE
    /\ UNCHANGED <<viewVars, netVars, backendVars, roundVars>>
    /\ UNCHANGED <<latestOk, viewOld, playAgain, diffCompleted>>

----------------------------------------------------------------------------
(* Specifications of the polling variant *)

Next ==
    \/ StartChallengeClick
    \/ BackClick
    \/ StartGameClick
    \/ SettingsClick
    \/ StartRoundClick
    \/ MainMenuClick
    \/ PlayAgainClick
    \/ PollTick
    \/ \E i \in 1..Len(polls), o \in PollOutcomes : PollRespond(i, o)
    \/ \E i \in 1..Len(resets) : ResetRespond(i)
    \/ PlayAgainTimeout
    \/ ImgError
    \/ Unmount
    \/ BackendNextRound

Spec == Init /\ [][Next]_vars

RaceSpec == RaceInit /\ [][Next]_vars

----------------------------------------------------------------------------
(* Properties of the polling variant *)

\* C1: the page becomes 'results' only in a step taken while the current
\* page is 'gameplay'; a poll answer that arrives after the page has changed
\* causes no navigation.
C1_ResultsOnlyFromGameplay ==
    [][(currentPage' = "results" /\ currentPage # "results") => currentPage = "gameplay"]_vars

\* C2: a poll that fails (network error, non-OK status, unparsable body)
\* leaves the snapshot, the page, the difficulty and the error message as
\* they were, and the poll timer keeps running.
C2_FailedPollChangesNothing ==
    [][\A i \in 1..Len(polls), o \in PollOutcomes \ {"ok"} :
          PollRespond(i, o) =>
              /\ UNCHANGED <<gameState, currentPage, selectedDifficulty, error, intervals>>
              /\ mounted => intervals' # {}]_vars

\* A poll is about to fail while the view holds a snapshot, an error
\* message and the gameplay page.
C2_Witness ==
    /\ mounted
    /\ ENABLED PollRespond(1, "parse")
    /\ HasResult(gameState)
    /\ currentPage = "gameplay"
    /\ error # ""

\* C3: the stored snapshot is the body of the most recently issued poll
\* among those that have succeeded.
C3_SnapshotIsLatestPoll == mounted => gameState = latestOk

\* C5: at most one poll interval timer is active, none after the component
\* is torn down, and no GET /state is issued after the teardown.
C5_TimerTiedToView ==
    /\ [](Cardinality(intervals) <= 1 /\ (~mounted => intervals = {}))
    /\ [][~mounted => Len(polls') <= Len(polls)]_vars

C5_Witness ==
    /\ ~mounted
    /\ intervals = {}
    /\ polls # <<>>
    /\ currentPage = "gameplay"

\* C7: when a reset completes, the view holds no choice or winner of the
\* game that was reset.
C7_ResetClearsView ==
    [][\A i \in 1..Len(resets) :
          (mounted /\ ResetRespond(i)) =>
              ~(HasResult(gameState') /\ viewOld')]_vars

\* The clicks that navigate without the backend
LocalNavigation ==
    \/ StartChallengeClick
    \/ BackClick
    \/ StartGameClick
    \/ SettingsClick
    \/ PlayAgainClick

\* C8: the current page is one of the four pages, a navigation that needs
\* no answer of the backend is enabled on it (a click, or the pending timer
\* of a Play Again click), and such navigation leads back to welcome.
C8_NeverStuck ==
    mounted =>
        /\ currentPage \in Pages
        /\ ClickTargets(currentPage) # {}
        /\ (ENABLED LocalNavigation) \/ timeouts # <<>>
        /\ "welcome" \in ClickReach({currentPage}, Cardinality(Pages))

C8_Witness ==
    /\ mounted
    /\ currentPage = "results"
    /\ resets # <<>>
    /\ polls # <<>>

\* C9: once the reset and the timer of a Play Again click are both over,
\* and no click followed, the page is 'difficulty'.
C9_PlayAgainEndsOnDifficulty ==
    (mounted /\ playAgain = "done") => currentPage = "difficulty"

----------------------------------------------------------------------------
(* The difficulty selection *)

DiffNext ==
    \/ StartChallengeClick
    \/ BackClick
    \/ StartGameClick
    \/ SettingsClick
    \/ \E level \in Levels : SetDifficultyClick(level)
    \/ \E i \in 1..Len(diffs) : DifficultyRespond(i)
    \/ ImgError
    \/ Unmount

DiffSpec == Init /\ [][DiffNext]_vars

\* C10: once a difficulty request has completed and none is in flight, the
\* selected difficulty names the level of the last difficulty request the
\* backend received.
C10_DifficultyFollowsBackend ==
    (mounted /\ diffCompleted /\ diffs = <<>>) => ToLowerCase(selectedDifficulty) = bDifficulty

----------------------------------------------------------------------------
(* The automatic transition, with the timers and the network kept going *)

\* The oldest poll in flight is answered: no request stays out for ever.
OldestPollDeliver == \E o \in PollOutcomes : PollRespond(1, o)

ResetDeliver == \E i \in 1..Len(resets) : ResetRespond(i)

LiveNext == Next \/ Settle

LiveSpec ==
    /\ Init
    /\ [][LiveNext]_vars
    /\ WF_vars(PollTick)
    /\ WF_vars(OldestPollDeliver)
    /\ WF_vars(ResetDeliver)
    /\ WF_vars(PlayAgainTimeout)

\* C4: once the page is 'gameplay', the backend reports the game completed
\* on every poll, the polls succeed and the user clicks nothing, the page
\* eventually becomes 'results'.
C4_AutoTransition ==
    (settled /\ currentPage = "gameplay") ~> (currentPage = "results")

\* The same with no Play Again timer pending and no reset in flight.
AutoTransitionWhenQuiet ==
    (settled /\ currentPage = "gameplay" /\ resets = <<>> /\ timeouts = <<>>)
        ~> (currentPage = "results")

\* A poll answer that does not report the game completed leaves the page.
NoTransitionUnlessCompleted ==
    [][\A i \in 1..Len(polls), o \in PollOutcomes :
          (PollRespond(i, o) /\ ~GameCompleted(polls[i].body)) => currentPage' = currentPage]_vars

----------------------------------------------------------------------------
(* Client-only variant: gesture classifier and round state machine *)

CountdownStart == 3

Fingers == {"thumb", "index", "middle", "ring", "pinky"}

Moves == {"Rock", "Paper", "Scissors"}

\* Gesture of a set of extended fingers
Classify(extended) ==
    CASE Cardinality(extended) = 0 -> "Rock"
      [] Cardinality(extended) = 5 -> "Paper"
      [] extended = {"index", "middle"} -> "Scissors"
      [] OTHER -> "Unknown"

Beats(a, b) ==
    \/ a = "Rock" /\ b = "Scissors"
    \/ a = "Scissors" /\ b = "Paper"
    \/ a = "Paper" /\ b = "Rock"

\* Outcome of a round for the player's and the computer's choice
Outcome(player, computer) ==
    CASE player = computer -> "draw"
      [] Beats(player, computer) -> "player"
      [] Beats(computer, player) -> "computer"
      [] OTHER -> "none"

\* A frame with a detected hand is classified; Unknown keeps the prior gesture.
Detect(extended) ==
    /\ cameraOn
    /\ lastGesture' = IF Classify(extended) = "Unknown" THEN lastGesture ELSE Classify(extended)
    /\ UNCHANGED <<cameraOn, roundState, countdown, playerChoice, computerChoice, winner>>
    /\ UNCHANGED <<viewVars, netVars, backendVars, historyVars>>

\* The user start action: idle -> counting-down
StartRound ==
    /\ cameraOn
    /\ roundState = "idle"
    /\ roundState' = "counting-down"
    /\ countdown' = CountdownStart
    /\ UNCHANGED <<cameraOn, lastGesture, playerChoice, computerChoice, winner>>
    /\ UNCHANGED <<viewVars, netVars, backendVars, historyVars>>

\* A tick that draws a computer choice whenever the countdown is over
TickRedraw ==
    /\ cameraOn
    /\ roundState # "idle"
    /\ IF roundState = "counting-down" /\ countdown > 1
       THEN /\ countdown' = countdown - 1
            /\ UNCHANGED <<roundState, playerChoice, computerChoice>>
       ELSE /\ countdown' = 0
            /\ roundState' = IF roundState = "counting-down" THEN "locked" ELSE roundState
            /\ playerChoice' = lastGesture
            /\ \E c \in Moves : computerChoice' = c
    /\ UNCHANGED <<cameraOn, lastGesture, winner>>
    /\ UNCHANGED <<viewVars, netVars, backendVars, historyVars>>

\* The one-second timer callback of the game loop
Tick ==
    /\ cameraOn
    /\ roundState # "idle"
    /\ IF roundState = "counting-down" /\ countdown > 1
       THEN /\ countdown' = countdown - 1
            /\ UNCHANGED <<roundState, playerChoice, computerChoice>>
       ELSE IF roundState = "counting-down"
       THEN /\ countdown' = 0
            /\ roundState' = "locked"
            /\ playerChoice' = lastGesture
            /\ \E c \in Moves : computerChoice' = c
       ELSE UNCHANGED <<countdown, roundState, playerChoice, computerChoice>>
    /\ UNCHANGED <<cameraOn, lastGesture, winner>>
    /\ UNCHANGED <<viewVars, netVars, backendVars, historyVars>>

\* locked -> resolved, at once
Resolve ==
    /\ roundState = "locked"
    /\ roundState' = "resolved"
    /\ winner' = Outcome(playerChoice, computerChoice)
    /\ UNCHANGED <<cameraOn, countdown, lastGesture, playerChoice, computerChoice>>
    /\ UNCHANGED <<viewVars, netVars, backendVars, historyVars>>

\* The user reset action (button or R)
ResetRound ==
    /\ roundState # "idle"
    /\ roundState' = "idle"
    /\ countdown' = 0
    /\ playerChoice' = "None"
    /\ computerChoice' = "None"
    /\ winner' = "None"
    /\ UNCHANGED <<cameraOn, lastGesture>>
    /\ UNCHANGED <<viewVars, netVars, backendVars, historyVars>>

\* Stop camera (button, Q or Esc): the timer is cleared
StopCamera ==
    /\ cameraOn
    /\ cameraOn' = FALSE
    /\ UNCHANGED <<roundState, countdown, lastGesture, playerChoice, computerChoice, winner>>
    /\ UNCHANGED <<viewVars, netVars, backendVars, historyVars>>

RoundNext ==
    \/ \E extended \in SUBSET Fingers : Detect(extended)
    \/ StartRound
    \/ Tick
    \/ Resolve
    \/ ResetRound
    \/ StopCamera

RoundSpec == Init /\ [][RoundNext]_vars

\* C6: the countdown starts at 3 and goes down by exactly 1 per tick; the
\* tick that takes it to 0 locks the round, freezing the last detected
\* gesture and drawing the computer choice; once locked, no tick locks
\* again or changes the two choices.
C6_CountdownLocksOnce ==
    [][/\ (roundState = "idle" /\ roundState' = "counting-down") => countdown' = CountdownStart
       /\ (roundState = "counting-down" /\ roundState' = "counting-down")
              => (countdown' \in {countdown, countdown - 1} /\ countdown' >= 1)
       /\ (roundState # "locked" /\ roundState' = "locked")
              => /\ roundState = "counting-down"
                 /\ countdown = 1
                 /\ countdown' = 0
                 /\ playerChoice' = lastGesture
                 /\ computerChoice' \in Moves
       /\ (roundState \in {"locked", "resolved"} /\ roundState' # "idle")
              => /\ UNCHANGED <<countdown, playerChoice, computerChoice>>
                 /\ roundState' \in {roundState, "resolved"}]_vars

C6_Witness ==
    /\ roundState = "resolved"
    /\ countdown = 0
    /\ playerChoice = "Paper"
    /\ computerChoice = "Rock"
    /\ winner = "player"

\* A reset of the round returns to idle with everything cleared.
RoundResetClears ==
    [][(roundState # "idle" /\ roundState' = "idle")
          => (countdown' = 0 /\ playerChoice' = "None" /\ computerChoice' = "None" /\ winner' = "None")]_vars

====
